---- MODULE Spec2Model ----
(***************************************************************************)
(* Model of src/aggregate.py: the RSS/Atom aggregator.  main() reads the   *)
(* feed list, fetches every feed with bounded retry (fetch_feed), merges   *)
(* the first MAX_PER_FEED entries of each feed into all_items (dedup on    *)
(* the trimmed link), sorts by time descending, truncates to MAX_TOTAL and *)
(* writes docs/index.html and docs/combined.xml.                           *)
(*                                                                         *)
(* Text is modelled as a sequence of one-character strings, so that        *)
(* str.strip(), html.escape() and xml_escape() are computed, not assumed.  *)
(* Instants are integers (tenths of a second on an arbitrary origin).      *)
(***************************************************************************)
EXTENDS Integers, Sequences, FiniteSets, TLC

\* ------------------------------------------------------------------ bounds
\* Number of feed URLs in the largest feeds.txt considered.
NumFeeds == 2
\* Longest entry list a served document carries (must exceed MAX_PER_FEED).
MaxEntries == 3
\* ------------------------------------------------- configuration (env vars)
\* RETRY = int(os.getenv("FEED_RETRY", "2"))
RETRY == 2
\* MAX_PER_FEED = int(os.getenv("MAX_PER_FEED", "30")); run with MAX_PER_FEED=2
MAX_PER_FEED == 2
\* MAX_TOTAL = int(os.getenv("MAX_TOTAL", "1000")); run with MAX_TOTAL=2
MAX_TOTAL == 2
\* time.sleep(1.2 * (i + 1)): the factor 1.2 s, in tenths of a second
SLEEP_BASE == 12

\* -------------------------------------------------------------------- text
SP == " "
WS == {" "}
\* Python's None for a text attribute that the entry does not carry.
None == <<"<None>">>
\* Python truthiness of an optional str: None and "" are falsy.
Truthy(s) == s # None /\ s # <<>>
\* `a or b`
Or(a, b) == IF Truthy(a) THEN a ELSE b

RECURSIVE lstrip(_)
lstrip(s) == IF s # <<>> /\ Head(s) \in WS THEN lstrip(Tail(s)) ELSE s

RECURSIVE rstrip(_)
rstrip(s) ==
    IF s # <<>> /\ s[Len(s)] \in WS THEN rstrip(SubSeq(s, 1, Len(s) - 1)) ELSE s

\* str.strip()
strip(s) == rstrip(lstrip(s))

\* def norm_text(s): return s.strip() if s else ""
norm_text(s) == IF Truthy(s) THEN strip(s) ELSE <<>>

RECURSIVE EscapeWith(_, _)
EscapeWith(map, s) ==
    IF s = <<>> THEN <<>>
    ELSE (IF Head(s) \in DOMAIN map THEN map[Head(s)] ELSE <<Head(s)>>)
         \o EscapeWith(map, Tail(s))

\* xml_escape in build_combined_rss: & < > are replaced
xml_escape(s) ==
    EscapeWith([c \in {"&", "<", ">"} |->
                  CASE c = "&" -> <<"&", "a", "m", "p", ";">>
                    [] c = "<" -> <<"&", "l", "t", ";">>
                    [] c = ">" -> <<"&", "g", "t", ";">>],
               IF Truthy(s) THEN s ELSE <<>>)

\* html.escape(s) (quote=True): & < > " ' are replaced
html_escape(s) ==
    EscapeWith([c \in {"&", "<", ">", "\"", "'"} |->
                  CASE c = "&" -> <<"&", "a", "m", "p", ";">>
                    [] c = "<" -> <<"&", "l", "t", ";">>
                    [] c = ">" -> <<"&", "g", "t", ";">>
                    [] c = "\"" -> <<"&", "q", "u", "o", "t", ";">>
                    [] c = "'" -> <<"&", "#", "x", "2", "7", ";">>],
               s)

\* Character codes of the alphabet used, for the digest below.
Ord(c) ==
    CASE c = " " -> 32 [] c = "&" -> 38 [] c = "a" -> 97 [] c = "b" -> 98
      [] c = "c" -> 99 [] c = "s" -> 115 [] c = "t" -> 116 [] OTHER -> 63

RECURSIVE Digest(_, _)
Digest(h, s) ==
    IF s = <<>> THEN h ELSE Digest((h * 31 + Ord(Head(s))) % 65536, Tail(s))

\* hashlib.sha1(link.encode("utf-8")).hexdigest(): a digest of the bytes of
\* its argument and of nothing else (a 16-bit stand-in for the 160-bit one).
sha1_hexdigest(s) == Digest(7, s)


\* ------------------------------------------------------------ environment
\* What feedparser leaves in published_parsed / updated_parsed /
\* created_parsed: nothing (None), a struct_time, or a struct_time that
\* time.mktime rejects (OverflowError / ValueError).
NoTime == [k |-> "none"]
BadTime == [k |-> "bad"]
At(t) == [k |-> "time", t |-> t]

\* The raw entries that served documents are built from.
RawEntries ==
    { [link |-> <<SP, "a", SP>>, title |-> <<"t", "&">>, summary |-> <<"s">>,
       published_parsed |-> At(30), updated_parsed |-> At(10),
       created_parsed |-> NoTime],
      [link |-> <<"a">>, title |-> None, summary |-> None,
       published_parsed |-> NoTime, updated_parsed |-> At(20),
       created_parsed |-> At(10)],
      [link |-> <<"b">>, title |-> <<SP>>, summary |-> <<>>,
       published_parsed |-> BadTime, updated_parsed |-> NoTime,
       created_parsed |-> At(30)],
      [link |-> <<"c">>, title |-> <<>>, summary |-> <<"s">>,
       published_parsed |-> NoTime, updated_parsed |-> BadTime,
       created_parsed |-> NoTime],
      [link |-> <<SP>>, title |-> <<"t">>, summary |-> <<"s">>,
       published_parsed |-> At(30), updated_parsed |-> NoTime,
       created_parsed |-> NoTime],
      [link |-> None, title |-> <<"t">>, summary |-> <<>>,
       published_parsed |-> At(10), updated_parsed |-> NoTime,
       created_parsed |-> NoTime] }

\* The channel title (parsed.feed.title) the n-th URL serves: a padded
\* title, a blank title, and from the third URL on none at all.
ChannelTitle(n) ==
    IF n = 1 THEN <<"F", SP>> ELSE IF n = 2 THEN <<SP>> ELSE None

SeqsUpTo(S, n) == UNION { [1..m -> S] : m \in 0..n }

\* The raw entries of the runs whose completion is checked: a padded link,
\* a link with no usable time, no link.
LiveEntries ==
    { e \in RawEntries : e.link \in {<<SP, "a", SP>>, <<"c">>, None} }

\* Entries a served document may carry behind its first MAX_PER_FEED ones:
\* an entry with a link of its own.
TailEntries(cat) == { e \in cat : e.link = <<"c">> }

\* Entry lists of served documents built from the raw entries cat: up to
\* MaxEntries entries.
EntryLists(cat) ==
    SeqsUpTo(cat, MAX_PER_FEED)
    \cup { s \o t : s \in [1..MAX_PER_FEED -> cat],
                    t \in SeqsUpTo(TailEntries(cat),
                                   MaxEntries - MAX_PER_FEED) }

\* feedparser.FeedParserDict: the channel title and the ordered entries.
Docs(n, cat) == [title : {ChannelTitle(n)}, entries : EntryLists(cat)]

\* feedparser.parse(b""): no channel title, no entries.
EmptyDoc == [title |-> None, entries |-> <<>>]

\* What one requests.get + feedparser.parse can meet: a transport error
\* (requests raises), an HTTP answer with an error status, or an HTTP 200
\* whose body parses to a document (possibly one without entries).
Responses(n, cat) ==
    { [kind |-> "error", status |-> s, doc |-> EmptyDoc] : s \in {0} }
    \cup { [kind |-> "http", status |-> s, doc |-> EmptyDoc] :
             s \in {404, 500} }
    \cup { [kind |-> "http", status |-> s, doc |-> d] :
             s \in {200}, d \in Docs(n, cat) }

\* Local UTC offsets of the machine the run may be on (same unit as instants).
TzOffsets == {0, 5}

\* Readings datetime.now(timezone.utc) may give during the run.
Nows == {20, 40}

\* The URL on the n-th URL line of feeds.txt.
Url(n) == <<"u", ToString(n)>>

\* feeds.txt with n URLs: a comment line, the URL lines (the first indented),
\* a blank line.
FeedsFile(n) ==
    << <<"#", "c">> >>
    \o [j \in 1..n |-> IF j = 1 THEN <<SP>> \o Url(j) ELSE Url(j)]
    \o << <<SP>> >>

\* Contents feeds.txt may have when it exists.
FeedsFiles == { FeedsFile(n) : n \in 0..NumFeeds }

\* ------------------------------------------------------------------ state
VARIABLES
    feeds_file,   \* feeds.txt: [exists, lines]
    catalogue,    \* the raw entries the feeds have to serve during the run
    docs_dir,     \* does the output directory exist
    tz,           \* local UTC offset of the machine
    pc,           \* where main() is
    exit_code,    \* process exit status once the run has ended (-1 before)
    feed_urls,    \* main: feed_urls
    idx,          \* main: position of `url` in feed_urls (for url in feed_urls)
    i,            \* fetch_feed: loop variable of range(RETRY + 1) (0 outside)
    parsed,       \* main: parsed (what fetch_feed returned)
    feed_title,   \* main: feed_title
    k,            \* main: position of `e` in entries (for e in entries)
    all_items,    \* main: all_items
    seen_links,   \* main: seen_links
    fail_count,   \* main: fail_count
    page,         \* docs/index.html: sequence of writes
    combined,     \* docs/combined.xml: sequence of writes
    reported,     \* the final "OK: items=.., feeds=.., failed=.." line
    \* ---- history of the run (read by the properties, never by the code)
    outcomes,     \* current fetch_feed call: per attempt, was the request
                  \* answered with a status < 400 and a document with entries
    served,       \* current fetch_feed call: the document so answered, if any
    slept,        \* current fetch_feed call: the time.sleep arguments so far
    exhausted,    \* number of fetch_feed calls that reached "Give up"
    first_seen,   \* per trimmed link: the first taken entry carrying it
    merged,       \* all_items as accumulated, before the sort and the cut
    due_links     \* the trimmed links among the taken entries of every
                  \* document a fetch returned

vars == <<feeds_file, catalogue, docs_dir, tz, pc, exit_code, feed_urls, idx,
          i, parsed,
          feed_title, k, all_items, seen_links, fail_count, page, combined,
          reported, outcomes, served, slept, exhausted, first_seen, merged,
          due_links>>


\* --------------------------------------------------------- pure functions
Min(a, b) == IF a <= b THEN a ELSE b

\* getattr(e, name, "") or e.get(name, ""): a missing attribute reads as "".
Attr(v) == IF Truthy(v) THEN v ELSE <<>>

\* Faulty variant: a missing feeds.txt is read as an empty list.
MissingIgnored(f) == FALSE

\* read_feeds_list, line 46: if not path.exists() (then SystemExit, line 47)
MissingFeedsFile(f) == ~f.exists

\* read_feeds_list, lines 48-54: strip each line, drop blank lines and
\* lines starting with '#'.
RECURSIVE read_feeds_list(_)
read_feeds_list(lines) ==
    IF lines = <<>> THEN <<>>
    ELSE LET s == strip(Head(lines))
         IN (IF s = <<>> \/ Head(s) = "#" THEN <<>> ELSE <<s>>)
            \o read_feeds_list(Tail(lines))

\* fetch_feed, lines 72-79: the attempt returns `parsed` iff requests.get
\* returned, the status is below 400 and the document has entries.
Succeeds(r) == r.kind = "http" /\ ~(r.status >= 400) /\ r.doc.entries # <<>>

\* Faulty variant: for i in range(RETRY), one attempt short.
MoreAttemptsShort(n) == n < RETRY

\* fetch_feed, line 60: for i in range(RETRY + 1)
MoreAttempts(n) == n < RETRY + 1

\* fetch_feed, line 83: time.sleep(1.2 * (i + 1)), i the 0-based loop variable
SleepDelay(n) == SLEEP_BASE * (n + 1)

\* fetch_feed, lines 84-86: after the loop, return feedparser.parse(b"")
GiveUpDoc == EmptyDoc

\* Faulty variant: the last error is raised again instead of returning.
RaiseAfterGiveUp == "raised"

\* fetch_feed, line 86: the function returns to main, line 211.
AfterGiveUp == "returned"

\* Faulty variant: the link is taken as served, untrimmed.
EntryLinkUntrimmed(e) == Attr(e.link)

\* main, line 223: link = norm_text(e.link or "")
EntryLink(e) == norm_text(Attr(e.link))

\* Faulty variant: a feed none of whose entries has a usable link is counted
\* as failed too.
FeedFailedOrLinkless(p) ==
    \A j \in 1..Len(p.entries) : EntryLink(p.entries[j]) = <<>>

\* main, line 212: if not parsed.entries
FeedFailed(p) == p.entries = <<>>

\* Faulty variant: `break` instead of `continue`, the loop over the URLs ends
\* at the first failed feed.
BreakAfterFailure(n, urls) == Len(urls) + 1

\* Faulty variant: the failed URL is tried again, without end.
RedoAfterFailure(n, urls) == n

\* main, lines 213-214: `continue`, the loop goes on with the next URL.
NextAfterFailure(n, urls) == n + 1

\* main, lines 216-219: norm_text(parsed.feed.title or "") or url
FeedLabel(p, url) == Or(norm_text(Attr(p.title)), url)

\* Faulty variant: the cap counts only entries with a usable link, so an
\* entry behind position MAX_PER_FEED is taken when an earlier one is dropped.
TakeAfterDrop(p) ==
    LET usable == SelectSeq(p.entries, LAMBDA e : EntryLink(e) # <<>>)
    IN  SubSeq(usable, 1, Min(MAX_PER_FEED, Len(usable)))

\* main, line 220: entries = parsed.entries[:MAX_PER_FEED]
TakeEntries(p) == SubSeq(p.entries, 1, Min(MAX_PER_FEED, Len(p.entries)))

\* time.mktime(val) followed by fromtimestamp(..).astimezone(utc): the
\* struct_time (UTC fields, as feedparser gives them) is read as LOCAL time.
mktime(val, tzo) == val.t - tzo

\* to_dt, lines 89-98
to_dt(e, now, tzo) ==
    LET usable(val) == val.k # "none" /\ val.k # "bad"
    IN  IF usable(e.published_parsed) THEN mktime(e.published_parsed, tzo)
        ELSE IF usable(e.updated_parsed) THEN mktime(e.updated_parsed, tzo)
        ELSE IF usable(e.created_parsed) THEN mktime(e.created_parsed, tzo)
        ELSE now

\* The placeholder title of line 227 (a 5-character CJK text, "(no title)").
PLACEHOLDER == <<"(", "n", "o", "t", "i", "t", "l", "e", ")">>

\* main, lines 227-236: the Item built from entry e
MakeItem(e, label, now, tzo) ==
    [title |-> norm_text(Or(Attr(e.title), PLACEHOLDER)),
     link |-> EntryLink(e),
     summary |-> Attr(e.summary),
     source |-> label,
     dt |-> to_dt(e, now, tzo)]

\* Faulty variant: only seen links are skipped, linkless entries are not.
SkipSeenOnly(link, seen) == link \in seen

\* Faulty variant: only linkless entries are skipped, seen links are not.
SkipLinklessOnly(link, seen) == link = <<>>

\* main, line 224: if not link or link in seen_links: continue
Skip(link, seen) == link = <<>> \/ link \in seen

\* Faulty variant: a later entry with a seen link replaces the kept item.
AddItemLastWins(items, seen, item) ==
    IF item.link = <<>> THEN items
    ELSE IF item.link \in seen
    THEN [j \in 1..Len(items) |->
            IF items[j].link = item.link THEN item ELSE items[j]]
    ELSE Append(items, item)

\* main, lines 224-237: all_items after the loop body ran on one entry
AddItem(items, seen, item) ==
    IF Skip(item.link, seen) THEN items ELSE Append(items, item)

\* main, lines 224-226: seen_links after the loop body ran on one entry
AddSeen(seen, link) == IF Skip(link, seen) THEN seen ELSE seen \cup {link}

\* list.sort(key=dt, reverse=True) is stable: x goes behind every element
\* whose dt is >= its own.
RECURSIVE InsertDesc(_, _)
InsertDesc(s, x) ==
    IF s = <<>> THEN <<x>>
    ELSE IF Head(s).dt >= x.dt THEN <<Head(s)>> \o InsertDesc(Tail(s), x)
    ELSE <<x>> \o s

RECURSIVE SortFrom(_, _)
SortFrom(acc, s) ==
    IF s = <<>> THEN acc ELSE SortFrom(InsertDesc(acc, Head(s)), Tail(s))

\* Faulty variant: the sort is left out.
SortMissing(s) == s

RECURSIVE InsertBeforeTies(_, _)
InsertBeforeTies(s, x) ==
    IF s = <<>> THEN <<x>>
    ELSE IF Head(s).dt > x.dt
    THEN <<Head(s)>> \o InsertBeforeTies(Tail(s), x)
    ELSE <<x>> \o s

RECURSIVE SortFromTies(_, _)
SortFromTies(acc, s) ==
    IF s = <<>> THEN acc
    ELSE SortFromTies(InsertBeforeTies(acc, Head(s)), Tail(s))

\* Faulty variant: sorted ascending and then reversed, which turns the order
\* of items with equal dt around.
SortReversingTies(s) == SortFromTies(<<>>, s)

\* main, line 240: all_items.sort(key=lambda x: x["dt"], reverse=True)
SortDesc(s) == SortFrom(<<>>, s)

\* Faulty variant: all_items[-MAX_TOTAL:], the cut keeps the oldest.
TruncateTail(s) == SubSeq(s, Len(s) - Min(MAX_TOTAL, Len(s)) + 1, Len(s))

\* main, line 241: all_items[:MAX_TOTAL]
Truncate(s) == SubSeq(s, 1, Min(MAX_TOTAL, Len(s)))

\* render_html, lines 116-145 (built-in page): counts and one <li> per item
render_html(items, feeds_count) ==
    [total |-> Len(items), feeds_count |-> feeds_count,
     items |-> [j \in 1..Len(items) |->
                  [href |-> html_escape(items[j].link),
                   title |-> html_escape(items[j].title),
                   source |-> html_escape(items[j].source),
                   dt |-> items[j].dt]]]

\* Faulty variant: the title is hashed along with the link.
GuidOfLinkAndTitle(it) == sha1_hexdigest(it.link \o it.title)

\* build_combined_rss, line 185: guid = sha1(it["link"].encode("utf-8"))
Guid(it) == sha1_hexdigest(it.link)

\* build_combined_rss, lines 183-196: one <item> per item
build_combined_rss(items) ==
    [j \in 1..Len(items) |->
       [title |-> xml_escape(items[j].title),
        link |-> xml_escape(items[j].link),
        guid |-> Guid(items[j]),
        pubDate |-> items[j].dt,
        author |-> xml_escape(items[j].source),
        description |-> Attr(items[j].summary)]]


\* ---------------------------------------------------------------- actions
\* State before main() runs, the feeds serving entries of cat.
InitWith(cat) ==
    /\ catalogue = cat
    /\ feeds_file \in
         {[exists |-> FALSE, lines |-> <<>>]}
         \cup {[exists |-> TRUE, lines |-> f] : f \in FeedsFiles}
    /\ docs_dir \in BOOLEAN
    /\ tz \in TzOffsets
    /\ pc = "start"
    /\ exit_code = -1
    /\ feed_urls = <<>>
    /\ idx = 0
    /\ i = 0
    /\ parsed = EmptyDoc
    /\ feed_title = <<>>
    /\ k = 0
    /\ all_items = <<>>
    /\ seen_links = {}
    /\ fail_count = 0
    /\ page = <<>>
    /\ combined = <<>>
    /\ reported = <<>>
    /\ outcomes = <<>>
    /\ served = EmptyDoc
    /\ slept = <<>>
    /\ exhausted = 0
    /\ first_seen = {}
    /\ merged = <<>>
    /\ due_links = {}

Init == InitWith(RawEntries)

LiveInit == InitWith(LiveEntries)

\* main, line 210: `for url in feed_urls` moves to position n of urls and,
\* if there is such a position, line 211 calls fetch_feed (line 59-60).
ForUrl(n, urls) ==
    /\ idx' = n
    /\ i' = 0
    /\ outcomes' = <<>>
    /\ slept' = <<>>
    /\ served' = EmptyDoc
    /\ pc' = IF n <= Len(urls) THEN "fetch" ELSE "sort"

\* main, lines 202-208: ensure_dirs, read_feeds_list (SystemExit when
\* feeds.txt is missing), the empty accumulators.
Start ==
    /\ pc = "start"
    /\ docs_dir' = TRUE
    /\ IF MissingFeedsFile(feeds_file)
       THEN /\ pc' = "abort"
            /\ exit_code' = 1
            /\ UNCHANGED <<feed_urls, idx, i, outcomes, slept, served>>
       ELSE /\ feed_urls' = read_feeds_list(feeds_file.lines)
            /\ ForUrl(1, feed_urls')
            /\ UNCHANGED exit_code
    /\ UNCHANGED <<feeds_file, catalogue, tz, parsed, feed_title, k, all_items,
                   seen_links, fail_count, page, combined, reported,
                   exhausted, first_seen, merged, due_links>>

\* The non-empty trimmed links among the first MAX_PER_FEED entries of a
\* document.
DueLinks(doc) ==
    {strip(Attr(doc.entries[j].link)) :
        j \in 1..Min(MAX_PER_FEED, Len(doc.entries))} \ {<<>>}

\* The request was answered with a document that has entries: no transport
\* error, no status >= 400, at least one entry.
Answered(r) ==
    r.kind # "error" /\ r.status < 400 /\ Len(r.doc.entries) > 0

\* fetch_feed, lines 60-83: one pass of the loop body.  The request is
\* answered by r; on success the function returns, otherwise the except
\* branch logs, sleeps and the loop goes on (or ends).
Attempt ==
    /\ pc = "fetch"
    /\ \E r \in Responses(idx, catalogue) :
         /\ outcomes' = Append(outcomes, Answered(r))
         /\ served' = IF Answered(r) THEN r.doc ELSE served
         /\ IF Succeeds(r)
            THEN /\ parsed' = r.doc
                 /\ pc' = "returned"
                 /\ i' = 0
                 /\ due_links' = due_links \cup DueLinks(r.doc)
                 /\ UNCHANGED slept
            ELSE /\ slept' = Append(slept, SleepDelay(i))
                 /\ i' = i + 1
                 /\ pc' = IF MoreAttempts(i + 1) THEN "fetch" ELSE "give_up"
                 /\ UNCHANGED <<parsed, due_links>>
    /\ UNCHANGED <<feeds_file, catalogue, docs_dir, tz,
                   exit_code, feed_urls, idx,
                   feed_title, k, all_items, seen_links, fail_count, page,
                   combined, reported, exhausted, first_seen, merged>>

\* fetch_feed, lines 84-86: the loop ended without a return.
GiveUp ==
    /\ pc = "give_up"
    /\ parsed' = GiveUpDoc
    /\ exhausted' = exhausted + 1
    /\ pc' = AfterGiveUp
    /\ i' = 0
    /\ UNCHANGED <<feeds_file, catalogue, docs_dir, tz,
                   exit_code, feed_urls, idx,
                   feed_title, k, all_items, seen_links, fail_count, page,
                   combined, reported, outcomes, served, slept, first_seen,
                   merged, due_links>>

\* main, lines 212-220: count a failed feed and go on with the next URL, or
\* compute the label and the taken entries and enter the entry loop.
AfterFetch ==
    /\ pc = "returned"
    /\ IF FeedFailed(parsed)
       THEN /\ fail_count' = fail_count + 1
            /\ ForUrl(NextAfterFailure(idx, feed_urls), feed_urls)
            /\ UNCHANGED <<feed_title, k>>
       ELSE /\ feed_title' = FeedLabel(parsed, feed_urls[idx])
            /\ UNCHANGED fail_count
            /\ IF TakeEntries(parsed) = <<>>
               THEN ForUrl(idx + 1, feed_urls) /\ UNCHANGED k
               ELSE /\ k' = 1
                    /\ pc' = "entries"
                    /\ outcomes' = <<>>
                    /\ slept' = <<>>
                    /\ served' = EmptyDoc
                    /\ UNCHANGED <<idx, i>>
    /\ UNCHANGED <<feeds_file, catalogue, docs_dir, tz,
                   exit_code, feed_urls,
                   parsed, all_items, seen_links, page, combined, reported,
                   exhausted, first_seen, merged, due_links>>

\* The history entry for the k-th raw entry of the current document: kept
\* when the entry is among the first MAX_PER_FEED, its trimmed link is not
\* empty and no earlier taken entry carried that link.  It records where the
\* entry came from and the instant to_dt resolved for it.
Occurrence(now) ==
    LET e == parsed.entries[k]
    IN  IF k <= MAX_PER_FEED /\ strip(Attr(e.link)) # <<>>
           /\ \A o \in first_seen : o.link # strip(Attr(e.link))
        THEN {[link |-> strip(Attr(e.link)), feed |-> idx, entry |-> e,
               channel |-> parsed.title, stamp |-> to_dt(e, now, tz)]}
        ELSE {}

\* Faulty variant: the entry loop ends after its first pass.
MoreEntriesNever(n, p) == FALSE

\* main, line 222: `for e in entries` has an entry after position n
MoreEntries(n, p) == n + 1 <= Len(TakeEntries(p))

\* main, lines 222-237: the loop body on entries[k], then the next entry or
\* the next URL.
ProcessEntry ==
    /\ pc = "entries"
    /\ \E now \in Nows :
         LET e == TakeEntries(parsed)[k]
             item == MakeItem(e, feed_title, now, tz)
         IN  /\ all_items' = AddItem(all_items, seen_links, item)
             /\ seen_links' = AddSeen(seen_links, EntryLink(e))
             /\ first_seen' = first_seen \cup Occurrence(now)
    /\ IF MoreEntries(k, parsed)
       THEN /\ k' = k + 1
            /\ UNCHANGED <<pc, idx, i, outcomes, slept, served>>
       ELSE /\ ForUrl(idx + 1, feed_urls)
            /\ UNCHANGED k
    /\ UNCHANGED <<feeds_file, catalogue, docs_dir, tz,
                   exit_code, feed_urls,
                   parsed, feed_title, fail_count, page, combined, reported,
                   exhausted, merged, due_links>>

\* main, lines 240-241: sort by time, newest first, and cut to MAX_TOTAL.
SortAndCut ==
    /\ pc = "sort"
    /\ merged' = all_items
    /\ all_items' = Truncate(SortDesc(all_items))
    /\ pc' = "render"
    /\ UNCHANGED <<feeds_file, catalogue, docs_dir, tz,
                   exit_code, feed_urls, idx,
                   i, parsed, feed_title, k, seen_links, fail_count, page,
                   combined, reported, outcomes, served, slept, exhausted,
                   first_seen, due_links>>

\* main, line 243: render_html writes docs/index.html.
RenderHtml ==
    /\ pc = "render"
    /\ page' = Append(page, render_html(all_items, Len(feed_urls)))
    /\ pc' = "rss"
    /\ UNCHANGED <<feeds_file, catalogue, docs_dir, tz,
                   exit_code, feed_urls, idx,
                   i, parsed, feed_title, k, all_items, seen_links,
                   fail_count, combined, reported, outcomes, served, slept,
                   exhausted, first_seen, merged, due_links>>

\* main, lines 244-250: build_combined_rss writes docs/combined.xml, the
\* summary line is printed and main returns (exit status 0).
BuildCombinedRss ==
    /\ pc = "rss"
    /\ combined' = Append(combined, build_combined_rss(all_items))
    /\ reported' = <<[items |-> Len(all_items), feeds |-> Len(feed_urls),
                      failed |-> fail_count]>>
    /\ exit_code' = 0
    /\ pc' = "done"
    /\ UNCHANGED <<feeds_file, catalogue, docs_dir, tz,
                   feed_urls, idx, i, parsed,
                   feed_title, k, all_items, seen_links, fail_count, page,
                   outcomes, served, slept, exhausted, first_seen, merged,
                   due_links>>

Next ==
    \/ Start
    \/ Attempt
    \/ GiveUp
    \/ AfterFetch
    \/ ProcessEntry
    \/ SortAndCut
    \/ RenderHtml
    \/ BuildCombinedRss

Spec == Init /\ [][Next]_vars

\* The interpreter runs main() to its end: every step that can be taken is
\* taken eventually (requests time out, sleeps end).
FairSpec == LiveInit /\ [][Next]_vars /\ WF_vars(Next)


\* ------------------------------------------------------------- properties
Links(items) == { items[j].link : j \in 1..Len(items) }

\* Has main() left the loop over the URLs and sorted and cut all_items.
Cut == pc \in {"render", "rss", "done"}

\* The label main() gives the n-th URL's items.
LabelOf(n) ==
    FeedLabel([title |-> ChannelTitle(n), entries |-> <<>>], feed_urls[n])

\* The Item the claims expect for the first occurrence o of a link.
ExpectedItem(o) == MakeItem(o.entry, LabelOf(o.feed), o.stamp, tz)

\* C1 (dedup invariant): in every state of the run, so after every prefix of
\* the source list and at the end, no two Items of all_items have the same
\* link, and every Item's link is a trimmed link (strip leaves it unchanged);
\* the same holds of the items written to the page and to the combined feed.
C1_DedupInvariant ==
    /\ \A a, b \in 1..Len(all_items) :
         a # b => all_items[a].link # all_items[b].link
    /\ \A a \in 1..Len(all_items) :
         strip(all_items[a].link) = all_items[a].link
    /\ \A w \in 1..Len(combined) : \A a, b \in 1..Len(combined[w]) :
         a # b => combined[w][a].link # combined[w][b].link

\* C1 witness: the first feed served " a " and then "a" among its taken
\* entries, both were processed, and one Item was kept for them.
C1_Witness ==
    /\ pc = "fetch" /\ idx = 2
    /\ Len(parsed.entries) >= 2
    /\ parsed.entries[1].link = <<SP, "a", SP>>
    /\ parsed.entries[2].link = <<"a">>
    /\ Len(all_items) = 1
    /\ all_items[1].link = <<"a">>

\* C2 (first processed wins): every Item is the one built from the earliest
\* taken occurrence of its link, in source-list order and then entry order:
\* label, title, summary and timestamp are those of that occurrence; and until
\* the cut there is exactly one Item per link that occurred.
C2_FirstWins ==
    /\ \A j \in 1..Len(all_items) :
         \E o \in first_seen :
            o.link = all_items[j].link /\ all_items[j] = ExpectedItem(o)
    /\ ~Cut => Len(all_items) = Cardinality(first_seen)
    /\ Cut => Len(merged) = Cardinality(first_seen)

\* C2 witness: link "a" was served by the first feed (padded, titled "t&")
\* and again by the second (plain, untitled); the run ended with the Item of
\* the first feed.
C2_Witness ==
    /\ pc = "done" /\ Len(feed_urls) = 2
    /\ parsed.title = ChannelTitle(2)
    /\ parsed.entries[1].link = <<"a">>
    /\ \E j \in 1..Len(all_items) :
         /\ all_items[j].link = <<"a">>
         /\ all_items[j].source = <<"F">>
         /\ all_items[j].title = <<"t", "&">>

\* C3 (sort invariant): in the sequence handed to the page renderer and to
\* the combined feed writer, and in what they wrote, each timestamp is >= the
\* next one.
C3_SortInvariant ==
    /\ Cut => \A j \in 1..(Len(all_items) - 1) :
                 all_items[j].dt >= all_items[j + 1].dt
    /\ \A w \in 1..Len(page) : \A j \in 1..(Len(page[w].items) - 1) :
         page[w].items[j].dt >= page[w].items[j + 1].dt
    /\ \A w \in 1..Len(combined) : \A j \in 1..(Len(combined[w]) - 1) :
         combined[w][j].pubDate >= combined[w][j + 1].pubDate

\* C3 witness: both files were written with two or more items that had been
\* accumulated oldest first.
C3_Witness ==
    /\ pc = "done"
    /\ Len(merged) >= 2 /\ merged[1].dt < merged[2].dt
    /\ Len(page[1].items) >= 2 /\ Len(combined[1]) >= 2

\* C4 (total cap): after the cut all_items has exactly min(MAX_TOTAL, n)
\* items, n the number of deduplicated items; they are items of the
\* accumulated collection, and no discarded item is strictly more recent than
\* a kept one.
C4_TotalCap ==
    Cut =>
      /\ Len(all_items) = Min(MAX_TOTAL, Cardinality(first_seen))
      /\ \A j \in 1..Len(all_items) :
           \E m \in 1..Len(merged) : merged[m] = all_items[j]
      /\ \A m \in 1..Len(merged) : \A j \in 1..Len(all_items) :
           merged[m].link \notin Links(all_items)
             => ~(merged[m].dt > all_items[j].dt)

\* C4 witness: more than MAX_TOTAL items were accumulated, the first
\* accumulated one was discarded, MAX_TOTAL are kept in strictly descending
\* order.
C4_Witness ==
    /\ pc = "done"
    /\ Len(merged) > MAX_TOTAL
    /\ merged[1].link \notin Links(all_items)
    /\ Len(all_items) = MAX_TOTAL
    /\ all_items[1].dt > all_items[2].dt

\* C5 (per-feed cap before dedupe): the entry loop only ever stands at one of
\* the first MAX_PER_FEED raw entries of the document, that entry being the
\* raw entry of that position; no source has more than MAX_PER_FEED Items in
\* the accumulated collection; and every Item's link occurs among the first
\* MAX_PER_FEED raw entries of some document, so an entry behind the cap is
\* never added, whatever happened to the entries before it.
C5_PerFeedCap ==
    /\ pc = "entries" =>
         /\ k <= MAX_PER_FEED /\ k <= Len(parsed.entries)
         /\ TakeEntries(parsed)[k] = parsed.entries[k]
    /\ \A n \in 1..Len(feed_urls) :
         Cardinality({ j \in 1..Len(all_items) :
                         all_items[j].source = LabelOf(n) }) <= MAX_PER_FEED
    /\ Links(all_items) \subseteq { o.link : o \in first_seen }

\* C5 witness: the first feed served a linkless entry, some entry and then,
\* behind the cap, an entry with the new link "c"; the feed was processed to
\* its end and "c" was not added.
C5_Witness ==
    /\ pc = "fetch" /\ idx = 2
    /\ Len(parsed.entries) = 3
    /\ EntryLink(parsed.entries[1]) = <<>>
    /\ parsed.entries[3].link = <<"c">>
    /\ <<"c">> \notin seen_links
    /\ <<"c">> \notin Links(all_items)


\* No attempt of the current fetch_feed call was answered with entries.
AllFailed == \A j \in 1..Len(outcomes) : ~outcomes[j]

\* C6 (bounded retry, success short-circuit): a fetch makes at most RETRY+1
\* attempts; every attempt before the latest one failed (transport error,
\* status >= 400 or no entries), so none follows a successful one; when the
\* fetch returns it has made at least one attempt, it returns the document of
\* the successful attempt if there is one, and it returns without one only
\* after RETRY+1 failed attempts.
C6_BoundedRetry ==
    /\ Len(outcomes) <= RETRY + 1
    /\ \A j \in 1..(Len(outcomes) - 1) : ~outcomes[j]
    /\ pc \in {"fetch", "give_up"} => AllFailed
    /\ pc = "returned" =>
         /\ Len(outcomes) >= 1
         /\ ~AllFailed => parsed = served /\ parsed.entries # <<>>
         /\ AllFailed => Len(outcomes) = RETRY + 1

\* C6 witness (with RETRY = 2): two failed attempts, then an answer with
\* entries, which fetch_feed returned.
C6_Witness ==
    /\ pc = "returned"
    /\ outcomes = <<FALSE, FALSE, TRUE>>
    /\ parsed.entries # <<>>

\* C7 (degrade, don't abort): no step of fetch_feed changes all_items or
\* seen_links; when all RETRY+1 attempts failed, the document returned has no
\* entries and the step main() takes on it leaves all_items and seen_links
\* unchanged and goes on with the next URL of the list (or, after the last
\* URL, with the sort), as it does after any other source.
C7_DegradeDontAbort ==
    [][ /\ pc \in {"fetch", "give_up"} =>
             all_items' = all_items /\ seen_links' = seen_links
        /\ (pc = "returned" /\ AllFailed) =>
             /\ parsed.entries = <<>>
             /\ all_items' = all_items /\ seen_links' = seen_links
             /\ idx' = idx + 1
             /\ pc' = IF idx < Len(feed_urls) THEN "fetch" ELSE "sort"
      ]_vars

\* C7 witness: the first source failed all its attempts, the second was
\* fetched after it and its entries were merged.
C7_Witness ==
    /\ pc = "done" /\ Len(feed_urls) = 2
    /\ exhausted = 1
    /\ parsed.title = ChannelTitle(2)
    /\ all_items # <<>>
    /\ \A j \in 1..Len(all_items) : all_items[j].source = LabelOf(2)

\* Both files were written, once each, and main() returned.
Completed == pc = "done" /\ Len(page) = 1 /\ Len(combined) = 1

\* C8 (run completion): when feeds.txt exists, whatever the answers to the
\* attempts, the run reaches its end with the page and the combined feed
\* written; neither file is ever written twice; and when every source
\* failed, both are written with zero items.
C8_RunCompletes ==
    /\ feeds_file.exists => <>Completed
    /\ [](Len(page) <= 1 /\ Len(combined) <= 1)
    /\ [](pc = "done" /\ exhausted = Len(feed_urls) =>
            page[1].total = 0 /\ page[1].items = <<>> /\ combined[1] = <<>>)

\* C8 witness: every source of a full list failed all its attempts and the
\* run ended with both files written, empty.
C8_Witness ==
    /\ Completed
    /\ Len(feed_urls) = NumFeeds
    /\ exhausted = NumFeeds
    /\ page[1].total = 0 /\ combined[1] = <<>>

\* C9 (failure counter): fail_count is the number of fetches that exhausted
\* their attempts (except between fetch_feed's return and the test of line
\* 212), and that is the number reported at the end.
C9_FailureCounter ==
    /\ pc # "returned" => fail_count = exhausted
    /\ pc = "done" => reported[1].failed = exhausted

\* C9 witness: every source was fetched successfully, none contributed an
\* Item (all taken entries linkless), and zero failures were reported.
C9_Witness ==
    /\ pc = "done" /\ Len(feed_urls) = NumFeeds
    /\ parsed.entries # <<>>
    /\ all_items = <<>>
    /\ exhausted = 0
    /\ reported[1].failed = 0

\* C10 (linear backoff), as claimed: the j-th delay of a fetch is
\* SLEEP_BASE * j, and a fetch that returns after k attempts has slept
\* k - 1 times, so it has not slept after its last attempt.
C10_BackoffBetweenAttempts ==
    /\ \A j \in 1..Len(slept) : slept[j] = SLEEP_BASE * j
    /\ pc = "returned" => Len(slept) = Len(outcomes) - 1


\* The title the claims expect for a raw title: the placeholder when the raw
\* title is absent, empty or blank, else the raw title trimmed.
ExpectedTitle(raw) ==
    IF raw = None \/ strip(raw) = <<>> THEN PLACEHOLDER ELSE strip(raw)

\* C11 (title non-empty), as claimed: every Item has a non-empty title, the
\* placeholder when the raw title of its entry is absent, empty or blank and
\* the trimmed raw title otherwise.
C11_TitleNonEmpty ==
    \A j \in 1..Len(all_items) :
       /\ all_items[j].title # <<>>
       /\ \A o \in first_seen :
            o.link = all_items[j].link =>
               all_items[j].title = ExpectedTitle(o.entry.title)


\* Is val a time representation that is present and parseable.
Parseable(val) == val.k = "time"

\* C12 (timestamp resolution), as claimed: every Item's timestamp is the
\* instant of the first of published, updated, created that is present and
\* parseable, an unparseable candidate being passed over for the next one,
\* and it is a reading of the clock only when there is no such candidate.
C12_TimestampResolution ==
    \A j \in 1..Len(all_items) : \A o \in first_seen :
       o.link = all_items[j].link =>
          LET e == o.entry
              dt == all_items[j].dt
          IN  IF Parseable(e.published_parsed) THEN dt = e.published_parsed.t
              ELSE IF Parseable(e.updated_parsed) THEN dt = e.updated_parsed.t
              ELSE IF Parseable(e.created_parsed) THEN dt = e.created_parsed.t
              ELSE dt \in Nows


\* Position of the item with the given link in a sequence of items.
PosOf(items, link) == CHOOSE m \in 1..Len(items) : items[m].link = link

\* C13 (stable sort on ties): two Items of the final sequence with equal
\* timestamps stand in the order in which they were accumulated.
C13_StableOnTies ==
    Cut =>
      \A a, b \in 1..Len(all_items) :
         (a < b /\ all_items[a].dt = all_items[b].dt) =>
            PosOf(merged, all_items[a].link) < PosOf(merged, all_items[b].link)

\* C13 witness: the run ended with two Items of equal timestamp that were
\* accumulated behind an older Item, so the sort moved them.
C13_Witness ==
    /\ pc = "done"
    /\ Len(all_items) = 2 /\ all_items[1].dt = all_items[2].dt
    /\ Len(merged) = 3 /\ merged[1].dt < merged[2].dt


\* Has the run ended, by main() returning or by SystemExit.
Ended == pc \in {"done", "abort"}

\* C14 (missing source list is fatal): when feeds.txt does not exist the run
\* goes from its start straight to the abort, which has a non-zero exit
\* status: no attempt is ever made and neither file is written; when
\* feeds.txt exists the run never aborts and ends with status 0, whether or
\* not sources failed.
C14_MissingListFatal ==
    /\ ~feeds_file.exists =>
         /\ pc \in {"start", "abort"}
         /\ outcomes = <<>> /\ exhausted = 0 /\ parsed = EmptyDoc
         /\ page = <<>> /\ combined = <<>>
         /\ pc = "abort" => exit_code > 0
    /\ feeds_file.exists =>
         /\ pc # "abort"
         /\ exit_code = (IF pc = "done" THEN 0 ELSE -1)
    /\ Ended <=> exit_code # -1

\* C14 witness: feeds.txt was missing and the run has aborted with status 1,
\* after ensure_dirs and before anything else.
C14_Witness ==
    /\ ~feeds_file.exists
    /\ pc = "abort" /\ exit_code = 1
    /\ docs_dir
    /\ page = <<>> /\ combined = <<>>


\* The trimmed links the feeds can serve.
KnownLinks == {strip(e.link) : e \in {r \in RawEntries : r.link # None}}

\* One identifier per link, whatever run, source or entry the link comes from.
GuidByLink == [l \in KnownLinks |-> sha1_hexdigest(l)]

\* C15 (identifier determinism): in every run, whatever the title, source,
\* summary or timestamp of an Item, the guid written for it in the combined
\* feed is the one the fixed table GuidByLink gives for its link; so two
\* Items with the same link, in the same or in different runs, get the same
\* guid.
C15_GuidDeterminedByLink ==
    \A n \in 1..Len(combined) :
       /\ Len(combined[n]) = Len(all_items)
       /\ \A j \in 1..Len(combined[n]) :
            /\ all_items[j].link \in KnownLinks
            /\ combined[n][j].guid = GuidByLink[all_items[j].link]

\* C15 witness: a combined feed was written in which the link "a" carries
\* the placeholder title; other runs write the same link with the title
\* "t&" of another entry, from another source and with another timestamp.
C15_Witness ==
    /\ pc = "done" /\ combined # <<>>
    /\ \E j \in 1..Len(all_items) :
         /\ all_items[j].link = <<"a">>
         /\ all_items[j].title = PLACEHOLDER
         /\ combined[1][j].guid = GuidByLink[<<"a">>]

\* The same link written with the other title.
C15_OtherRun ==
    /\ pc = "done" /\ combined # <<>>
    /\ \E j \in 1..Len(all_items) :
         /\ all_items[j].link = <<"a">>
         /\ all_items[j].title # PLACEHOLDER
         /\ combined[1][j].guid = GuidByLink[<<"a">>]


\* The loop body is about to run on an entry without a usable link.
AtLinkless ==
    /\ pc = "entries"
    /\ EntryLink(TakeEntries(parsed)[k]) = <<>>

\* C16 (linkless entries are skipped silently): the loop body on an entry
\* whose link is absent, empty or blank leaves the collection, the seen
\* links and the failure counter as they were, and goes on to the next taken
\* entry of the same source when there is one (to the next source
\* otherwise); and no Item of the collection has an empty link.
C16_LinklessSkipped ==
    /\ [](\A j \in 1..Len(all_items) : all_items[j].link # <<>>)
    /\ []( <<>> \notin seen_links )
    /\ [][ AtLinkless =>
             /\ all_items' = all_items
             /\ seen_links' = seen_links
             /\ fail_count' = fail_count
             /\ parsed' = parsed
             /\ IF k < Len(TakeEntries(parsed))
                THEN pc' = "entries" /\ k' = k + 1 /\ idx' = idx
                ELSE idx' = idx + 1 /\ pc' \in {"fetch", "sort"}
       ]_vars

\* C16 witness: the only source served a linkless entry and then an entry
\* with a link; the first was skipped, the second was merged, and nothing
\* was counted as failed.
C16_Witness ==
    /\ pc = "sort" /\ Len(feed_urls) = 1
    /\ Len(TakeEntries(parsed)) = 2
    /\ EntryLink(parsed.entries[1]) = <<>>
    /\ Len(all_items) = 1
    /\ all_items[1].link = EntryLink(parsed.entries[2])
    /\ seen_links = {all_items[1].link}
    /\ fail_count = 0


\* fetch_feed is running for the source at idx.
Fetching == pc \in {"fetch", "give_up"}

\* The document the last finished fetch returned is dealt with: it had no
\* entries (a failed source), or each of its taken entries is linkless or
\* has its link in the collection.
LastFetchMerged ==
    \A j \in 1..Len(TakeEntries(parsed)) :
       \/ EntryLink(parsed.entries[j]) = <<>>
       \/ EntryLink(parsed.entries[j]) \in Links(all_items)

\* C17 (sequential, list-ordered fetching): the position in the source list
\* only ever moves forward by one, and only when the run starts, when a
\* failed fetch has returned, or when the last taken entry of the current
\* source has been processed; every attempt is made for the source at the
\* current position; and while a fetch is running, the document of the fetch
\* before it is completely merged.
C17_SequentialFetching ==
    /\ [](Fetching => idx \in 1..Len(feed_urls) /\ LastFetchMerged)
    /\ [][ /\ idx' \in {idx, idx + 1}
           /\ idx' # idx =>
                \/ pc = "start"
                \/ pc = "returned" /\ parsed.entries = <<>>
                \/ pc = "entries" /\ k = Len(TakeEntries(parsed))
           /\ (outcomes' # outcomes /\ outcomes' # <<>>) =>
                /\ pc = "fetch" /\ idx' = idx
                /\ Len(outcomes') = Len(outcomes) + 1
           /\ (parsed' # parsed /\ parsed'.entries # <<>>) =>
                /\ pc = "fetch" /\ parsed'.title = ChannelTitle(idx)
       ]_vars

\* C17 witness: the first attempt for the second source has been made (and
\* failed) after the fetch of the first source returned two entries and
\* both were merged.
C17_Witness ==
    /\ pc = "fetch" /\ idx = 2
    /\ outcomes = <<FALSE>>
    /\ parsed.title = ChannelTitle(1)
    /\ Len(TakeEntries(parsed)) = 2
    /\ Len(all_items) = 2
    /\ \A j \in 1..2 : all_items[j].link = EntryLink(parsed.entries[j])


\* The loop over the sources is between two sources or over.
BetweenSources == pc \in {"fetch", "give_up", "sort"}

\* The collection as it was accumulated, whether or not it was cut since.
Accumulated == IF Cut THEN merged ELSE all_items

\* C18 (merge completeness): the links of the accumulated collection, before
\* the cut to MAX_TOTAL, are the seen links; they are all among the
\* non-empty trimmed links of the first MAX_PER_FEED entries of the
\* documents the fetches returned (none from beyond a cap, none from a
\* source that failed); and once the entry loop of a source is over, and
\* at the end of the loop over the sources, no such link is missing.
C18_MergeComplete ==
    /\ Links(Accumulated) = seen_links
    /\ seen_links \subseteq due_links
    /\ (BetweenSources \/ Cut) => seen_links = due_links
    /\ \A j \in 1..Len(Accumulated) :
          \E o \in first_seen : o.link = Accumulated[j].link /\ o.feed <= idx

\* C18 witness: at the end of the loop, before the cut, one of two sources
\* has failed and the other has served three entries, the third with a link
\* of its own; the collection holds exactly the links of the first two.
C18_Witness ==
    /\ pc = "sort" /\ Len(feed_urls) = 2 /\ fail_count = 1
    /\ Len(parsed.entries) = 3
    /\ EntryLink(parsed.entries[3]) # <<>>
    /\ EntryLink(parsed.entries[3]) \notin seen_links
    /\ Cardinality(seen_links) = 2
    /\ Links(all_items) = DueLinks(parsed)
    /\ Len(all_items) = 2

====
